---------------------------- MODULE Spec2Model ----------------------------
(***************************************************************************)
(* A model of the TSA screen widget (src/src/diagramwidget.{h,cpp}).       *)
(*                                                                         *)
(* Numbers.  The program computes in IEEE doubles.  The model uses         *)
(*   - extended rationals <<n, d>> (d >= 0, lowest terms; <<1,0>> = +inf,  *)
(*     <<-1,0>> = -inf, <<0,0>> = NaN) for QTransform and screen geometry, *)
(*     so that a division by zero gives what the double division gives;    *)
(*   - fixed point integers for the kinematics: time in milliseconds,      *)
(*     world lengths in 1/3600 nm (NmUnit), angles in micro-degrees        *)
(*     (MicroDeg), rates in micro-degrees per second.                      *)
(* Rounding of doubles is not modelled.                                    *)
(***************************************************************************)
EXTENDS Integers, Sequences, FiniteSets, TLC

VARIABLES
    transform,       \* TSAWidget::transform (DisplayTransform)
    widgetSize,      \* QWidget::size(), read by paintEvent as width()/height()
    tacticalData,    \* TSAWidget::tacticalData (TacticalDisplay)
    simulationTime,  \* TSAWidget::simulationTime, in milliseconds
    timer,           \* TSAWidget::timer: [active, interval] of the QTimer
    frame,           \* what the last paintEvent handed to the painter
    lastCall,        \* history: the operation performed last, with its arguments
    calls,           \* history: how many operations were performed
    runB,            \* a second widget [simulationTime, tacticalData] (two-run check)
    probe            \* input and output of a helper applied on its own

vars == <<transform, widgetSize, tacticalData, simulationTime, timer, frame,
          lastCall, calls, runB, probe>>

---------------------------------------------------------------------------
(* Integer helpers *)

Abs(n) == IF n < 0 THEN -n ELSE n

Sign(n) == IF n < 0 THEN -1 ELSE IF n > 0 THEN 1 ELSE 0

RECURSIVE GCD(_, _)
GCD(a, b) == IF b = 0 THEN a ELSE GCD(b, a % b)

RECURSIVE SqrtSearch(_, _, _)
SqrtSearch(n, lo, hi) ==
    IF lo >= hi THEN lo
    ELSE LET mid == (lo + hi + 1) \div 2
         IN  IF mid * mid <= n THEN SqrtSearch(n, mid, hi)
                               ELSE SqrtSearch(n, lo, mid - 1)

\* floor of the square root of n >= 0 (n < 2^30)
ISqrt(n) == SqrtSearch(n, 0, 32767)

---------------------------------------------------------------------------
(* Extended rationals: the double arithmetic of the transform and painter *)

Norm(n, d) ==
    IF d = 0 THEN <<Sign(n), 0>>
    ELSE LET g == GCD(Abs(n), Abs(d))
             s == IF d < 0 THEN -1 ELSE 1
         IN  <<(s * n) \div g, (s * d) \div g>>

RInt(n) == <<n, 1>>
RNaN == <<0, 0>>
RIsFinite(a) == a[2] # 0
RMul(a, b) == Norm(a[1] * b[1], a[2] * b[2])
RNeg(a) == <<-a[1], a[2]>>
RAdd(a, b) ==
    IF a = RNaN \/ b = RNaN THEN RNaN
    ELSE IF a[2] = 0 /\ b[2] = 0 THEN (IF a = b THEN a ELSE RNaN)
    ELSE IF a[2] = 0 THEN a
    ELSE IF b[2] = 0 THEN b
    ELSE LET g == GCD(a[2], b[2])
         IN  Norm(a[1] * (b[2] \div g) + b[1] * (a[2] \div g), a[2] * (b[2] \div g))
RSub(a, b) == RAdd(a, RNeg(b))
\* 1/a; 1/0 is +inf (the zeros here are +0.0)
RInv(a) == IF a[1] < 0 THEN <<-a[2], -a[1]>> ELSE <<a[2], a[1]>>
RDiv(a, b) == RMul(a, RInv(b))
\* a < b as the double comparison decides it (false when either is NaN)
RLess(a, b) ==
    IF a = RNaN \/ b = RNaN THEN FALSE
    ELSE IF a[2] = 0 /\ b[2] = 0 THEN a[1] < b[1]
    ELSE IF a[2] = 0 THEN a[1] < 0
    ELSE IF b[2] = 0 THEN b[1] > 0
    ELSE a[1] * b[2] < b[1] * a[2]
\* qMin(a, b): (a < b) ? a : b
qMin(a, b) == IF RLess(a, b) THEN a ELSE b
\* square root of a rational; exact on the squares the model feeds it
RSqrt(a) ==
    IF a = RNaN \/ a[1] < 0 THEN RNaN
    ELSE IF a[2] = 0 THEN a
    ELSE Norm(ISqrt(a[1]), ISqrt(a[2]))

\* Points with rational coordinates
Pt(x, y) == <<RInt(x), RInt(y)>>
PAdd(p, q) == <<RAdd(p[1], q[1]), RAdd(p[2], q[2])>>
PSub(p, q) == <<RSub(p[1], q[1]), RSub(p[2], q[2])>>
PScale(p, k) == <<RMul(p[1], k), RMul(p[2], k)>>
PDiv(p, k) == <<RDiv(p[1], k), RDiv(p[2], k)>>
\* QLineF(a, b).length()
LineLength(a, b) ==
    LET d == PSub(b, a) IN RSqrt(RAdd(RMul(d[1], d[1]), RMul(d[2], d[2])))

---------------------------------------------------------------------------
(* QTransform restricted to scale + translation: x' = m11*x + dx, y' = m22*y + dy *)

Identity == [m11 |-> RInt(1), m22 |-> RInt(1), dx |-> RInt(0), dy |-> RInt(0)]
FromTranslate(dx, dy) == [m11 |-> RInt(1), m22 |-> RInt(1), dx |-> dx, dy |-> dy]
\* QTransform::scale and ::translate apply the new operation before the old ones
TScale(T, sx, sy) == [T EXCEPT !.m11 = RMul(@, sx), !.m22 = RMul(@, sy)]
TTranslate(T, tx, ty) ==
    [T EXCEPT !.dx = RAdd(@, RMul(tx, T.m11)), !.dy = RAdd(@, RMul(ty, T.m22))]
TMap(T, p) == <<RAdd(RMul(T.m11, p[1]), T.dx), RAdd(RMul(T.m22, p[2]), T.dy)>>
\* QTransform::inverted(): the identity when the matrix is singular
Inverted(T) ==
    IF T.m11 = RInt(0) \/ T.m22 = RInt(0) THEN Identity
    ELSE [m11 |-> RInv(T.m11), m22 |-> RInv(T.m22),
          dx |-> RNeg(RDiv(T.dx, T.m11)), dy |-> RNeg(RDiv(T.dy, T.m22))]

---------------------------------------------------------------------------
(* DisplayTransform *)

Size(w, h) == [w |-> w, h |-> h]
Rect(l, t, w, h) == [left |-> l, top |-> t, width |-> w, height |-> h]

\* updateTransform with an inverse that undoes the scale but not the translation
updateTransform_InverseOfScaleOnly(size, bounds, maintainAspectRatio) ==
    LET scale == qMin(RDiv(RInt(size.w), RInt(bounds.width)),
                      RDiv(RInt(size.h), RInt(bounds.height)))
        offsetX == RDiv(RSub(RInt(size.w), RMul(RInt(bounds.width), scale)), RInt(2))
        offsetY == RDiv(RSub(RInt(size.h), RMul(RInt(bounds.height), scale)), RInt(2))
        w2s == TTranslate(TScale(FromTranslate(offsetX, offsetY), scale, scale),
                          RInt(-bounds.left), RInt(-bounds.top))
    IN  [screenSize |-> size, worldBounds |-> bounds, worldToScreen |-> w2s,
         screenToWorld |-> Inverted(TScale(Identity, scale, scale))]

\* DisplayTransform::updateTransform: the four fields it leaves behind
updateTransform(size, bounds, maintainAspectRatio) ==
    LET sw == RInt(size.w)
        sh == RInt(size.h)
        bw == RInt(bounds.width)
        bh == RInt(bounds.height)
        scaleX == RDiv(sw, bw)
        scaleY == RDiv(sh, bh)
        scale == qMin(scaleX, scaleY)
        offsetX == RDiv(RSub(sw, RMul(bw, scale)), RInt(2))
        offsetY == RDiv(RSub(sh, RMul(bh, scale)), RInt(2))
        w2s == IF maintainAspectRatio
               THEN TTranslate(TScale(FromTranslate(offsetX, offsetY), scale, scale),
                               RInt(-bounds.left), RInt(-bounds.top))
               ELSE TTranslate(TScale(FromTranslate(RInt(0), RInt(0)), scaleX, scaleY),
                               RInt(-bounds.left), RInt(-bounds.top))
    IN  [screenSize |-> size, worldBounds |-> bounds,
         worldToScreen |-> w2s, screenToWorld |-> Inverted(w2s)]

\* DisplayTransform::setWorldBounds
setWorldBounds(t, bounds) == updateTransform(t.screenSize, bounds, TRUE)

mapToScreen(t, worldPoint) == TMap(t.worldToScreen, worldPoint)
mapToWorld(t, screenPoint) == TMap(t.screenToWorld, screenPoint)

\* DisplayTransform(): 800x600 over (-10,-10,20,20)
DefaultTransform == updateTransform(Size(800, 600), Rect(-10, -10, 20, 20), TRUE)

---------------------------------------------------------------------------
(* Units and trigonometry of the kinematics *)

MicroDeg == 1000 * 1000          \* one degree, in micro-degrees
NmUnit == 60 * 60                \* one nautical mile, in model length units
MsPerSec == 10 * 100             \* one second, in milliseconds
MsPerHour == 3600 * MsPerSec
BeamUnit == 100 * 100            \* one world unit of a sonar beam point

Deg(d) == d * MicroDeg

\* atan(2^-i) in micro-degrees, i = 0..15
AtanTable == <<45000000, 26565051, 14036243, 7125016, 3576334, 1789911, 895174,
               447614, 223811, 111906, 55953, 27976, 13988, 6994, 3497, 1749>>

RECURSIVE Pow2(_)
Pow2(i) == IF i = 0 THEN 1 ELSE 2 * Pow2(i - 1)

\* CORDIC vectoring: the angle of (x, y), x > 0, accumulated in z
RECURSIVE Cordic(_, _, _, _)
Cordic(x, y, z, i) ==
    IF y = 0 \/ i >= Len(AtanTable) THEN z
    ELSE IF y > 0
         THEN Cordic(x + y \div Pow2(i), y - x \div Pow2(i), z + AtanTable[i + 1], i + 1)
         ELSE Cordic(x - y \div Pow2(i), y + x \div Pow2(i), z - AtanTable[i + 1], i + 1)

\* qRadiansToDegrees(qAtan2(y, x)), in micro-degrees, in (-180, 180];
\* |x|, |y| < 2^14.  Exact on the axes and diagonals, within 0.005 degree elsewhere.
Atan2Deg(y, x) ==
    IF y = 0 THEN (IF x < 0 THEN Deg(180) ELSE 0)
    ELSE IF x = 0 THEN (IF y > 0 THEN Deg(90) ELSE -Deg(90))
    ELSE LET a == Cordic(Abs(x) * Pow2(14), Abs(y) * Pow2(14), 0, 0)
         IN  IF x > 0 THEN (IF y > 0 THEN a ELSE -a)
             ELSE (IF y > 0 THEN Deg(180) - a ELSE a - Deg(180))

\* qSin / qCos of a bearing that is a multiple of 45 degrees, times 10^4
SinE4(b) ==
    LET k == ((b \div Deg(45)) % 8)
    IN  <<0, 7071, 10000, 7071, 0, -7071, -10000, -7071>>[k + 1]
CosE4(b) == SinE4(b + Deg(90))

---------------------------------------------------------------------------
(* TacticalDisplay and the widget's data operations *)

TacticalVector(o, b, m, t, c, w, hl, ha) ==
    [origin |-> o, bearing |-> b, magnitude |-> m, type |-> t, color |-> c,
     lineWidth |-> w, headLength |-> hl, headAngle |-> ha]

SonarBeam(start, end, w, c, lw) ==
    [startPoint |-> start, endPoint |-> end, width |-> w, color |-> c, lineWidth |-> lw]

\* the two vectors the constructor adds, and the one main() adds
OwnShipVector ==
    TacticalVector(<<0, 0>>, Deg(0), 6, "OWN_SHIP", "cyan", 3, 12, 25)
AdoptedTrackVector ==
    TacticalVector(<<3, 3>>, Deg(225), 8, "ADOPTED_TRACK", "red", 3, 12, 25)
InterceptVector ==
    TacticalVector(<<0, 0>>, Deg(60), 8, "INTERCEPT_COURSE", "blue", 2, 15, 30)

\* TacticalDisplay()
DefaultTacticalDisplay ==
    [ownShipPosition |-> <<0, 0>>,
     ownShipBearing  |-> Deg(0),
     ownShipSpeed    |-> 10,
     vectors         |-> <<>>,
     sonarBeam       |-> SonarBeam(<<0, 0>>, <<0, 0>>, 2, "green", 4),
     targetBearing   |-> Deg(45),
     targetRange     |-> 4 * NmUnit,
     bearingRate     |-> 0]

updateOwnShip(td, bearing, speed) ==
    [td EXCEPT !.ownShipBearing = bearing, !.ownShipSpeed = speed]

updateTarget(td, bearing, range, bearingRate) ==
    [td EXCEPT !.targetBearing = bearing, !.targetRange = range,
               !.bearingRate = bearingRate]

updateSonarBeam(td, bearing, width) ==
    LET beamLength == 10
        start == <<0, 0>>
        end == <<beamLength * SinE4(bearing), -beamLength * CosE4(bearing)>>
    IN  [td EXCEPT !.sonarBeam.startPoint = start, !.sonarBeam.endPoint = end,
                   !.sonarBeam.width = width]

\* addTacticalVector putting the new vector in front
addTacticalVector_Prepend(td, vector) ==
    [td EXCEPT !.vectors = <<vector>> \o @]

addTacticalVector(td, vector) ==
    [td EXCEPT !.vectors = Append(@, vector)]

clearTacticalVectors(td) == [td EXCEPT !.vectors = <<>>]

\* the loop of updateTacticalData: append the given vectors one by one
RECURSIVE AppendAll(_, _)
AppendAll(list, more) ==
    IF more = <<>> THEN list ELSE AppendAll(Append(list, Head(more)), Tail(more))

\* (osBearing, osSpeed: the parameters ownShipBearing, ownShipSpeed)
updateTacticalData(td, osBearing, osSpeed, targetVectors, sonarBearing, bearingRate) ==
    [td EXCEPT !.ownShipBearing = osBearing,
               !.ownShipSpeed = osSpeed,
               !.targetBearing = sonarBearing,
               !.bearingRate = bearingRate,
               !.vectors = AppendAll(<<>>, targetVectors)]

\* the tactical data the constructor leaves behind
ConstructedTacticalData ==
    LET td0 == [DefaultTacticalDisplay EXCEPT
                   !.ownShipPosition = <<0, 0>>,
                   !.ownShipBearing = Deg(0),
                   !.ownShipSpeed = 10,
                   !.sonarBeam = SonarBeam(<<80 * BeamUnit, 480 * BeamUnit>>,
                                           <<720 * BeamUnit, 80 * BeamUnit>>,
                                           2, "green", 4)]
    IN  addTacticalVector(addTacticalVector(td0, OwnShipVector), AdoptedTrackVector)

---------------------------------------------------------------------------
(* The simulation step *)

TickMs == 2000                   \* "simulationTime += 2.0", in milliseconds
DefaultIntervalMs == 2000        \* timer->start(2000)
TargetSpeedKnots == 8            \* "8.0 * t"
TargetStartNm == 3               \* "3.0 + ...", "targetY = 3.0"
DemoBearingRate == (5 * MicroDeg) \div 100    \* the 0.05 handed to updateTarget

\* the target position the step computes for a simulation time, in NmUnit
TargetX(timeMs) == TargetStartNm * NmUnit + (TargetSpeedKnots * NmUnit * timeMs) \div MsPerHour
TargetY(timeMs) == TargetStartNm * NmUnit

\* qSqrt(dx*dx + dy*dy)
Range(dx, dy) == ISqrt(dx * dx + dy * dy)
\* qRadiansToDegrees(qAtan2(dx, dy))
Bearing(dx, dy) == Atan2Deg(dx, dy)

\* updateSimulation handing updateTarget a rate computed from the stored bearing
updateSimulation_ComputedRate(time, td) ==
    LET newTime == time + TickMs
        dx == TargetX(newTime)
        dy == TargetY(newTime)
        newBearing == Bearing(dx, dy)
        rate == (newBearing - td.targetBearing) \div (TickMs \div MsPerSec)
    IN  [simulationTime |-> newTime,
         tacticalData |-> updateTarget(td, newBearing, Range(dx, dy), rate)]

\* updateSimulation leaving the stored range as it was
updateSimulation_KeepsRange(time, td) ==
    LET newTime == time + TickMs
        newBearing == Bearing(TargetX(newTime), TargetY(newTime))
    IN  [simulationTime |-> newTime,
         tacticalData |-> updateTarget(td, newBearing, td.targetRange, DemoBearingRate)]

\* TSAWidget::updateSimulation on (simulationTime, tacticalData)
updateSimulation(time, td) ==
    LET newTime == time + TickMs
        dx == TargetX(newTime)
        dy == TargetY(newTime)
        newRange == Range(dx, dy)
        newBearing == Bearing(dx, dy)
    IN  [simulationTime |-> newTime,
         tacticalData |-> updateTarget(td, newBearing, newRange, DemoBearingRate)]

---------------------------------------------------------------------------
(* Painting: the shaded region and the frame *)

RZero == RInt(0)
RPositive(a) == RLess(RZero, a)

\* the lambda sideTest of drawOneSidedShadedRegion
sideTest(lineStart, lineEnd, pt) ==
    LET v1 == PSub(lineEnd, lineStart)
        v2 == PSub(pt, lineStart)
    IN  RSub(RMul(v1[1], v2[2]), RMul(v1[2], v2[1]))

Corners(size) == <<Pt(0, 0), Pt(size.w, 0), Pt(size.w, size.h), Pt(0, size.h)>>

RECURSIVE SelectCorners(_, _, _, _)
\* the loop over the corners: keep c when (sideTest(c) > 0) == shadeLeft
SelectCorners(cs, lineStart, lineEnd, shadeLeft) ==
    IF cs = <<>> THEN <<>>
    ELSE LET c == Head(cs)
             rest == SelectCorners(Tail(cs), lineStart, lineEnd, shadeLeft)
         IN  IF RPositive(sideTest(lineStart, lineEnd, c)) = shadeLeft
             THEN <<c>> \o rest ELSE rest

\* TSAWidget::drawOneSidedShadedRegion: the polygon built, and whether it is drawn
drawOneSidedShadedRegion(size, lineStart, lineEnd, shipPos) ==
    LET shipOnLeft == RPositive(sideTest(lineStart, lineEnd, shipPos))
        shadeLeft == ~shipOnLeft
        halfInchPixels == RInt(48)
        lineVector == PSub(lineEnd, lineStart)
        lineLength == LineLength(lineStart, lineEnd)
        perpVector == PDiv(<<RNeg(lineVector[2]), lineVector[1]>>, lineLength)
        offsetDirection == IF shadeLeft THEN perpVector
                           ELSE <<RNeg(perpVector[1]), RNeg(perpVector[2])>>
        offsetStart == PAdd(lineStart, PScale(offsetDirection, halfInchPixels))
        offsetEnd == PAdd(lineEnd, PScale(offsetDirection, halfInchPixels))
        shadePoly == SelectCorners(Corners(size), lineStart, lineEnd, shadeLeft)
                       \o <<offsetEnd, offsetStart>>
    IN  [shadePoly |-> shadePoly, drawn |-> Len(shadePoly) >= 3]

HeadLen == 12                    \* "double headLen = 12.0"
HeadAngleDeg == 25               \* "qDegreesToRadians(25.0)"

\* CORDIC rotation: (cos z, sin z) times 2^20 for |z| <= 90 degrees, from
\* (x, y) = (0.607253 * 2^20, 0)
RECURSIVE CordicRotate(_, _, _, _)
CordicRotate(x, y, z, i) ==
    IF i >= Len(AtanTable) THEN <<x, y>>
    ELSE IF z >= 0
         THEN CordicRotate(x - y \div Pow2(i), y + x \div Pow2(i), z - AtanTable[i + 1], i + 1)
         ELSE CordicRotate(x + y \div Pow2(i), y - x \div Pow2(i), z + AtanTable[i + 1], i + 1)

\* <<qCos(a), qSin(a)>> in millionths, a in micro-degrees in (-360, 540) degrees;
\* within 0.0001 of the true value
CosSinE6(a) ==
    LET b == IF a > Deg(180) THEN a - Deg(360)
             ELSE IF a <= -Deg(180) THEN a + Deg(360) ELSE a
        flip == b > Deg(90) \/ b < -Deg(90)
        z == IF b > Deg(90) THEN b - Deg(180)
             ELSE IF b < -Deg(90) THEN b + Deg(180) ELSE b
        r == CordicRotate(636751, 0, z, 0)
        c == ((r[1] \div 16) * 15625) \div 1024
        sn == ((r[2] \div 16) * 15625) \div 1024
    IN  IF flip THEN <<-c, -sn>> ELSE <<c, sn>>

\* qAtan2(dy, dx) in micro-degrees, of two finite rationals of small numerators
RAtan2Deg(dy, dx) == Atan2Deg(dy[1] * dx[2], dx[1] * dy[2])

\* TSAWidget::drawSimpleArrow: the shaft and the head polygon <<to, h1, h2>>
drawSimpleArrow(from, to) ==
    LET angle == RAtan2Deg(RSub(to[2], from[2]), RSub(to[1], from[1]))
        headLen == HeadLen
        headAngle == Deg(HeadAngleDeg)
        cs1 == CosSinE6(angle + Deg(180) - headAngle)
        cs2 == CosSinE6(angle + Deg(180) + headAngle)
        h1 == <<RAdd(to[1], Norm(headLen * cs1[1], MicroDeg)),
                RAdd(to[2], Norm(headLen * cs1[2], MicroDeg))>>
        h2 == <<RAdd(to[1], Norm(headLen * cs2[1], MicroDeg)),
                RAdd(to[2], Norm(headLen * cs2[2], MicroDeg))>>
    IN  [shaft |-> <<from, to>>, head |-> <<to, h1, h2>>]

NoFrame == [painted |-> FALSE]

\* TSAWidget::paintEvent: the geometry handed to the painter
paintEvent(size) ==
    LET w == RInt(size.w)
        h == RInt(size.h)
        shipPos == <<RMul(w, <<3, 4>>), RMul(h, <<1, 4>>)>>
        lineStart == <<RZero, h>>
        lineEnd == shipPos
        direction == PSub(lineEnd, lineStart)
        length == LineLength(lineStart, lineEnd)
        extendedEnd == PAdd(lineStart, PDiv(PScale(direction, RAdd(w, h)), length))
        sensorPos == PAdd(lineStart, PScale(PSub(lineEnd, lineStart), <<9, 20>>))
        shade == drawOneSidedShadedRegion(size, lineStart, extendedEnd, shipPos)
    IN  [painted |-> TRUE, size |-> size,
         shadeLine |-> <<lineStart, extendedEnd>>, shadeRef |-> shipPos,
         shadePoly |-> shade.shadePoly, shadeDrawn |-> shade.drawn,
         bearingLine |-> <<lineStart, lineEnd>>,
         shipPos |-> shipPos, sensorPos |-> sensorPos,
         ownShipArrow |-> drawSimpleArrow(shipPos, PAdd(shipPos, Pt(0, -60))),
         targetArrow |-> drawSimpleArrow(sensorPos, PAdd(sensorPos, Pt(80, -80)))]

---------------------------------------------------------------------------
(* The widget as a state machine *)

MaxCalls == 4                    \* operations performed in one run

\* the arguments the environment calls the operations with
OwnShipInputs == {<<Deg(45), 15>>, <<Deg(90), 10>>}
TargetInputs == {<<Deg(90), (13 * NmUnit) \div 2, (8 * MicroDeg) \div 100>>,
                 <<Deg(359), 2 * NmUnit, 0>>}
SonarInputs == {<<Deg(135), 3>>, <<Deg(0), 2>>}
VectorInputs == {InterceptVector, OwnShipVector}
TacticalDataInputs ==
    {<<Deg(45), 15, <<>>, Deg(90), (8 * MicroDeg) \div 100>>,
     <<Deg(0), 10, <<InterceptVector, AdoptedTrackVector>>, Deg(30), 0>>}
BoundsInputs == {Rect(-15, -15, 30, 30), Rect(-10, -10, 40, 20),
                 Rect(0, 0, 0, 20), Rect(-5, -5, 10, -10)}
SizeInputs == {Size(800, 600), Size(640, 480), Size(300, 400), Size(0, 600)}
IntervalInputs == {1000, 500}

Call(op, args) == [op |-> op, args |-> args]

\* after TSAWidget::TSAWidget; the widget is not yet resized or painted
Init ==
    /\ transform = setWorldBounds(DefaultTransform, Rect(-10, -10, 20, 20))
    /\ widgetSize = Size(640, 480)
    /\ tacticalData = ConstructedTacticalData
    /\ simulationTime = 0
    /\ timer = [active |-> TRUE, interval |-> DefaultIntervalMs]
    /\ frame = NoFrame
    /\ lastCall = Call("TSAWidget", <<>>)
    /\ calls = 0
    /\ runB = [simulationTime |-> 0, tacticalData |-> ConstructedTacticalData]
    /\ probe = [fn |-> "none"]

Step(op, args) ==
    /\ calls < MaxCalls
    /\ calls' = calls + 1
    /\ lastCall' = Call(op, args)
    /\ UNCHANGED <<runB, probe>>

UpdateTacticalData ==
    \E a \in TacticalDataInputs :
        /\ Step("updateTacticalData", a)
        /\ tacticalData' = updateTacticalData(tacticalData, a[1], a[2], a[3], a[4], a[5])
        /\ UNCHANGED <<transform, widgetSize, simulationTime, timer, frame>>

UpdateOwnShip ==
    \E a \in OwnShipInputs :
        /\ Step("updateOwnShip", a)
        /\ tacticalData' = updateOwnShip(tacticalData, a[1], a[2])
        /\ UNCHANGED <<transform, widgetSize, simulationTime, timer, frame>>

UpdateTarget ==
    \E a \in TargetInputs :
        /\ Step("updateTarget", a)
        /\ tacticalData' = updateTarget(tacticalData, a[1], a[2], a[3])
        /\ UNCHANGED <<transform, widgetSize, simulationTime, timer, frame>>

UpdateSonarBeam ==
    \E a \in SonarInputs :
        /\ Step("updateSonarBeam", a)
        /\ tacticalData' = updateSonarBeam(tacticalData, a[1], a[2])
        /\ UNCHANGED <<transform, widgetSize, simulationTime, timer, frame>>

AddTacticalVector ==
    \E v \in VectorInputs :
        /\ Step("addTacticalVector", <<v>>)
        /\ tacticalData' = addTacticalVector(tacticalData, v)
        /\ UNCHANGED <<transform, widgetSize, simulationTime, timer, frame>>

ClearTacticalVectors ==
    /\ Step("clearTacticalVectors", <<>>)
    /\ tacticalData' = clearTacticalVectors(tacticalData)
    /\ UNCHANGED <<transform, widgetSize, simulationTime, timer, frame>>

\* TSAWidget::setWorldBounds
SetWorldBounds ==
    \E b \in BoundsInputs :
        /\ Step("setWorldBounds", <<b>>)
        /\ transform' = setWorldBounds(transform, b)
        /\ UNCHANGED <<widgetSize, tacticalData, simulationTime, timer, frame>>

\* the widget is resized: QWidget takes the size, then TSAWidget::resizeEvent
resizeEvent(t, size) == updateTransform(size, t.worldBounds, TRUE)

ResizeEvent ==
    \E sz \in SizeInputs :
        /\ Step("resizeEvent", <<sz>>)
        /\ widgetSize' = sz
        /\ transform' = resizeEvent(transform, sz)
        /\ UNCHANGED <<tacticalData, simulationTime, timer, frame>>

\* QTimer::setInterval keeps a stopped timer stopped and a running one running
\* setting the interval as QTimer::start(int) would
SetSimulationInterval_StartsTimer ==
    \E ms \in IntervalInputs :
        /\ Step("setSimulationInterval", <<ms>>)
        /\ timer' = [active |-> TRUE, interval |-> ms]
        /\ UNCHANGED <<transform, widgetSize, tacticalData, simulationTime, frame>>

\* QTimer::setInterval keeps a stopped timer stopped
SetSimulationInterval ==
    \E ms \in IntervalInputs :
        /\ Step("setSimulationInterval", <<ms>>)
        /\ timer' = [timer EXCEPT !.interval = ms]
        /\ UNCHANGED <<transform, widgetSize, tacticalData, simulationTime, frame>>

StartSimulation ==
    /\ Step("startSimulation", <<>>)
    /\ timer' = [timer EXCEPT !.active = TRUE]
    /\ UNCHANGED <<transform, widgetSize, tacticalData, simulationTime, frame>>

StopSimulation ==
    /\ Step("stopSimulation", <<>>)
    /\ timer' = [timer EXCEPT !.active = FALSE]
    /\ UNCHANGED <<transform, widgetSize, tacticalData, simulationTime, frame>>

\* the timer's timeout signal, connected to TSAWidget::updateSimulation
UpdateSimulation ==
    /\ timer.active
    /\ Step("updateSimulation", <<timer.interval>>)
    /\ LET r == updateSimulation(simulationTime, tacticalData)
       IN  /\ simulationTime' = r.simulationTime
           /\ tacticalData' = r.tacticalData
    /\ UNCHANGED <<transform, widgetSize, timer, frame>>

\* a paint event that also runs a tick
PaintEvent_AdvancesSimulation ==
    /\ widgetSize.w > 0 /\ widgetSize.h > 0
    /\ transform.screenSize = widgetSize
    /\ Step("paintEvent", <<>>)
    /\ frame' = paintEvent(widgetSize)
    /\ LET r == updateSimulation(simulationTime, tacticalData)
       IN  /\ simulationTime' = r.simulationTime
           /\ tacticalData' = r.tacticalData
    /\ UNCHANGED <<transform, widgetSize, timer>>

\* a paint event; Qt sends none to a widget of empty size, and none before the
\* resize event that tells the widget its size
PaintEvent ==
    /\ widgetSize.w > 0 /\ widgetSize.h > 0
    /\ transform.screenSize = widgetSize
    /\ Step("paintEvent", <<>>)
    /\ frame' = paintEvent(widgetSize)
    /\ UNCHANGED <<transform, widgetSize, tacticalData, simulationTime, timer>>

\* the const getters return a copy of the member
getCurrentTacticalData(td) == td

getTransform(t) == t

\* a call of a getter, with the value it returned
Read(op, result) ==
    /\ calls < MaxCalls
    /\ calls' = calls + 1
    /\ lastCall' = [op |-> op, args |-> <<>>, result |-> result]
    /\ UNCHANGED <<transform, widgetSize, tacticalData, simulationTime, timer, frame,
                   runB, probe>>

GetCurrentTacticalData == Read("getCurrentTacticalData", getCurrentTacticalData(tacticalData))

GetTransform == Read("getTransform", getTransform(transform))

Next ==
    \/ UpdateTacticalData
    \/ UpdateOwnShip
    \/ UpdateTarget
    \/ UpdateSonarBeam
    \/ AddTacticalVector
    \/ ClearTacticalVectors
    \/ SetWorldBounds
    \/ ResizeEvent
    \/ SetSimulationInterval
    \/ StartSimulation
    \/ StopSimulation
    \/ UpdateSimulation
    \/ PaintEvent
    \/ GetCurrentTacticalData
    \/ GetTransform

Spec == Init /\ [][Next]_vars

---------------------------------------------------------------------------
(* Helpers applied on their own: the bearing expression and the shaded region *)

MaxCoord == 5                    \* relative positions tried: -MaxCoord..MaxCoord

InitBearing ==
    /\ Init!1 /\ Init!2 /\ Init!3 /\ Init!4 /\ Init!5 /\ Init!6 /\ Init!7 /\ Init!8
    /\ Init!9
    /\ probe \in [fn : {"bearing"}, x : -MaxCoord..MaxCoord, y : -MaxCoord..MaxCoord,
                  applied : {FALSE}, out : {0}]

\* newBearing = qRadiansToDegrees(qAtan2(dx, dy)) on the probe's (x, y)
ApplyBearing ==
    /\ probe.fn = "bearing" /\ ~probe.applied
    /\ probe' = [probe EXCEPT !.applied = TRUE, !.out = Bearing(probe.x, probe.y)]
    /\ UNCHANGED <<transform, widgetSize, tacticalData, simulationTime, timer, frame,
                   lastCall, calls, runB>>

SpecBearing == InitBearing /\ [][ApplyBearing]_vars

ShadeSizes == {Size(800, 600), Size(640, 480)}

\* lines of rational length across a viewport, in both directions
ShadeLines(size) ==
    LET w == size.w
        h == size.h
        ls == {<<Pt(0, h \div 2), Pt(w, h \div 2)>>,
               <<Pt(w \div 2, 0), Pt(w \div 2, h)>>,
               <<Pt(0, h), Pt(w, 0)>>,
               <<Pt(0, 0), Pt(w, h)>>}
    IN  ls \cup {<<l[2], l[1]>> : l \in ls}

RefPoints(size) ==
    LET w == size.w
        h == size.h
    IN  {Pt(w \div 4, h \div 4), Pt((3 * w) \div 4, h \div 4),
         Pt(w \div 4, (3 * h) \div 4), Pt((3 * w) \div 4, (3 * h) \div 4),
         Pt(w \div 2, h \div 2)}

InitShade ==
    /\ Init!1 /\ Init!2 /\ Init!3 /\ Init!4 /\ Init!5 /\ Init!6 /\ Init!7 /\ Init!8
    /\ Init!9
    /\ \E size \in ShadeSizes : \E l \in ShadeLines(size) : \E r \in RefPoints(size) :
          probe = [fn |-> "shade", size |-> size, lineStart |-> l[1], lineEnd |-> l[2],
                   shipPos |-> r, applied |-> FALSE,
                   out |-> [shadePoly |-> <<>>, drawn |-> FALSE]]

ApplyShade ==
    /\ probe.fn = "shade" /\ ~probe.applied
    /\ probe' = [probe EXCEPT !.applied = TRUE,
                    !.out = drawOneSidedShadedRegion(probe.size, probe.lineStart,
                                                     probe.lineEnd, probe.shipPos)]
    /\ UNCHANGED <<transform, widgetSize, tacticalData, simulationTime, timer, frame,
                   lastCall, calls, runB>>

SpecShade == InitShade /\ [][ApplyShade]_vars

MaxArrowCoord == 2               \* arrow end points tried: -MaxArrowCoord..MaxArrowCoord

ArrowPoints == {Pt(x, y) : x \in -MaxArrowCoord..MaxArrowCoord,
                           y \in -MaxArrowCoord..MaxArrowCoord}

InitArrow ==
    /\ Init!1 /\ Init!2 /\ Init!3 /\ Init!4 /\ Init!5 /\ Init!6 /\ Init!7 /\ Init!8
    /\ Init!9
    /\ \E from \in ArrowPoints : \E to \in ArrowPoints :
          probe = [fn |-> "arrow", from |-> from, to |-> to, applied |-> FALSE,
                   out |-> [shaft |-> <<>>, head |-> <<>>]]

ApplyArrow ==
    /\ probe.fn = "arrow" /\ ~probe.applied
    /\ probe' = [probe EXCEPT !.applied = TRUE,
                              !.out = drawSimpleArrow(probe.from, probe.to)]
    /\ UNCHANGED <<transform, widgetSize, tacticalData, simulationTime, timer, frame,
                   lastCall, calls, runB>>

SpecArrow == InitArrow /\ [][ApplyArrow]_vars

---------------------------------------------------------------------------
(* Two widgets ticking together, the second also driven by data updates *)

PairStep(op, args) ==
    /\ calls < MaxCalls
    /\ calls' = calls + 1
    /\ lastCall' = Call(op, args)
    /\ UNCHANGED <<transform, widgetSize, timer, frame, probe>>

PairUpdateSimulation ==
    /\ timer.active
    /\ PairStep("updateSimulation", <<timer.interval>>)
    /\ LET r == updateSimulation(simulationTime, tacticalData)
       IN  /\ simulationTime' = r.simulationTime
           /\ tacticalData' = r.tacticalData
    /\ runB' = updateSimulation(runB.simulationTime, runB.tacticalData)

UpdateOwnShipB ==
    \E a \in OwnShipInputs :
        /\ PairStep("updateOwnShip", a)
        /\ runB' = [runB EXCEPT !.tacticalData = updateOwnShip(@, a[1], a[2])]
        /\ UNCHANGED <<simulationTime, tacticalData>>

UpdateTargetB ==
    \E a \in TargetInputs :
        /\ PairStep("updateTarget", a)
        /\ runB' = [runB EXCEPT !.tacticalData = updateTarget(@, a[1], a[2], a[3])]
        /\ UNCHANGED <<simulationTime, tacticalData>>

UpdateTacticalDataB ==
    \E a \in TacticalDataInputs :
        /\ PairStep("updateTacticalData", a)
        /\ runB' = [runB EXCEPT !.tacticalData =
                       updateTacticalData(@, a[1], a[2], a[3], a[4], a[5])]
        /\ UNCHANGED <<simulationTime, tacticalData>>

NextPair ==
    \/ PairUpdateSimulation
    \/ UpdateOwnShipB
    \/ UpdateTargetB
    \/ UpdateTacticalDataB

SpecPair == Init /\ [][NextPair]_vars

---------------------------------------------------------------------------
(* Properties *)

ValidGeometry(bounds, size) ==
    bounds.width > 0 /\ bounds.height > 0 /\ size.w > 0 /\ size.h > 0

\* C1: a configuring call (setWorldBounds, resize) whose bounds or viewport have a
\* width or height <= 0 leaves the whole transform (stored bounds, stored size,
\* forward and inverse map) as it was before the call.
C1_InvalidConfigureKeepsTransform ==
    [][(/\ lastCall'.op \in {"setWorldBounds", "resizeEvent"}
        /\ \/ (lastCall'.op = "setWorldBounds"
                 /\ ~ValidGeometry(lastCall'.args[1], transform.screenSize))
           \/ (lastCall'.op = "resizeEvent"
                 /\ ~ValidGeometry(transform.worldBounds, lastCall'.args[1])))
       => transform' = transform]_vars

\* C2: each tick advances the simulation time by the dt of the interval the timer
\* is configured with at that moment (interval ms of wall time = interval ms of
\* simulated time), so the time is the sum of the dt of the ticks performed.
C2_TickAdvancesByInterval ==
    [][lastCall'.op = "updateSimulation"
         => simulationTime' = simulationTime + timer.interval]_vars

\* normalize0_360 of the specification: add 360 to a negative bearing
Normalize0_360(b) == IF b < 0 THEN b + Deg(360) ELSE b

\* where a ship starting at (x0, y0) is after timeMs at course and speed (NmUnit)
Advance(x0, y0, course, speed, timeMs) ==
    LET dist == (speed * NmUnit * timeMs) \div MsPerHour
    IN  <<x0 + (dist * SinE4(course)) \div 10000, y0 + (dist * CosE4(course)) \div 10000>>

\* target minus own ship, both advanced for the accumulated simulation time
RelativePosition ==
    LET own == Advance(0, 0, tacticalData.ownShipBearing, tacticalData.ownShipSpeed,
                       simulationTime)
        tgt == Advance(TargetStartNm * NmUnit, TargetStartNm * NmUnit, Deg(90),
                       TargetSpeedKnots, simulationTime)
    IN  <<tgt[1] - own[1], tgt[2] - own[2]>>

\* C3: after a tick the stored target range and bearing are those of the relative
\* position, target position minus own-ship position, own ship having advanced
\* along its course at its speed and the target along course 90 at 8 kn.
C3_RangeBearingOfRelativePosition ==
    lastCall.op = "updateSimulation" =>
        /\ tacticalData.targetRange = Range(RelativePosition[1], RelativePosition[2])
        /\ tacticalData.targetBearing =
               Normalize0_360(Bearing(RelativePosition[1], RelativePosition[2]))

\* wrap180 of the specification
Wrap180(r) ==
    IF r > Deg(180) THEN r - Deg(360) ELSE IF r < -Deg(180) THEN r + Deg(360) ELSE r

RSign(a) == Sign(a[1])

SeqToSet(q) == {q[i] : i \in DOMAIN q}

\* the side of the shading line a point of the painted frame lies on: -1, 0 or 1
FrameSide(pt) == RSign(sideTest(frame.shadeLine[1], frame.shadeLine[2], pt))

\* C6: the shaded polygon of a painted frame has as vertices exactly the viewport
\* corners on the opposite side of the line from the reference point (sideOf of
\* opposite sign), and no corner on the reference point's side.
C6_PolygonHoldsOppositeCorners ==
    frame.painted =>
        \A c \in SeqToSet(Corners(frame.size)) :
            /\ (c \in SeqToSet(frame.shadePoly))
                  <=> (FrameSide(c) * FrameSide(frame.shadeRef) < 0)
            /\ (FrameSide(c) * FrameSide(frame.shadeRef) > 0)
                  => c \notin SeqToSet(frame.shadePoly)

\* the turn made at vertex i of a closed polygon: -1, 0 or 1
TurnAt(poly, i) ==
    LET n == Len(poly)
        a == poly[i]
        b == poly[(i % n) + 1]
        c == poly[((i + 1) % n) + 1]
        u == PSub(b, a)
        v == PSub(c, b)
    IN  RSign(RSub(RMul(u[1], v[2]), RMul(u[2], v[1])))

HullOrdered(poly) ==
    \A i, j \in DOMAIN poly : TurnAt(poly, i) = TurnAt(poly, j) /\ TurnAt(poly, i) # 0

SamplePoints(bounds) ==
    {Pt(bounds.left + dx, bounds.top + dy) :
        dx \in {0, bounds.width \div 3, bounds.width},
        dy \in {0, bounds.height \div 3, bounds.height}}
BoundsCentre(bounds) ==
    <<RAdd(RInt(bounds.left), <<bounds.width, 2>>),
      RAdd(RInt(bounds.top), <<bounds.height, 2>>)>>
SizeCentre(size) == <<Norm(size.w, 2), Norm(size.h, 2)>>

\* C8: whenever the stored bounds and viewport size are valid, the inverse map
\* undoes the forward map on the points of the stored bounds, and the forward map
\* is the one of the stored bounds and size: it sends the centre of the bounds to
\* the centre of the viewport and the bounds into the viewport.
C8_InverseMatchesForward ==
    ValidGeometry(transform.worldBounds, transform.screenSize) =>
        /\ \A p \in SamplePoints(transform.worldBounds) \cup
                       {BoundsCentre(transform.worldBounds)} :
              /\ mapToWorld(transform, mapToScreen(transform, p)) = p
              /\ ~RLess(mapToScreen(transform, p)[1], RZero)
              /\ ~RLess(RInt(transform.screenSize.w), mapToScreen(transform, p)[1])
              /\ ~RLess(mapToScreen(transform, p)[2], RZero)
              /\ ~RLess(RInt(transform.screenSize.h), mapToScreen(transform, p)[2])
        /\ mapToScreen(transform, BoundsCentre(transform.worldBounds))
              = SizeCentre(transform.screenSize)

\* C8 witness: bounds and size both reconfigured away from the defaults
C8_Witness ==
    /\ lastCall.op = "resizeEvent"
    /\ transform.worldBounds = Rect(-10, -10, 40, 20)
    /\ transform.screenSize = Size(640, 480)
    /\ mapToWorld(transform, mapToScreen(transform, Pt(3, 4))) = Pt(3, 4)
    /\ mapToScreen(transform, Pt(3, 4)) # Pt(3, 4)

\* C9: the vector list starts as the two vectors the constructor adds; adding
\* appends the vector after the existing ones, updateTacticalData makes the list
\* the given sequence, clearing empties it, and no other operation changes it.
C9_VectorListFollowsCalls ==
    /\ tacticalData.vectors = <<OwnShipVector, AdoptedTrackVector>>
    /\ [][CASE lastCall'.op = "addTacticalVector" ->
                 tacticalData'.vectors = Append(tacticalData.vectors, lastCall'.args[1])
            [] lastCall'.op = "updateTacticalData" ->
                 tacticalData'.vectors = lastCall'.args[3]
            [] lastCall'.op = "clearTacticalVectors" ->
                 tacticalData'.vectors = <<>>
            [] OTHER -> tacticalData'.vectors = tacticalData.vectors]_vars

\* C9 witness: a vector added after a tick stands third, behind the two defaults
C9_Witness ==
    /\ lastCall.op = "addTacticalVector"
    /\ simulationTime > 0
    /\ tacticalData.vectors = <<OwnShipVector, AdoptedTrackVector, InterceptVector>>

\* what a tick reports: time, bearing, range and rate
Outputs(time, td) == <<time, td.targetBearing, td.targetRange, td.bearingRate>>

ThousandthsOf(r) == (r[1] \div r[2]) * 1000 + ((r[1] % r[2]) * 1000) \div r[2]

\* the distance between two points, in thousandths, rounded down
DistanceE3(p, q) ==
    LET d == PSub(q, p)
        ex == ThousandthsOf(d[1])
        ey == ThousandthsOf(d[2])
    IN  ISqrt(ex * ex + ey * ey)

C11_DistinctEndPointsWingDistance ==
    (probe.fn = "arrow" /\ probe.applied /\ probe.from # probe.to) =>
        /\ Abs(DistanceE3(probe.to, probe.out.head[2]) - 1000 * HeadLen) <= 10
        /\ Abs(DistanceE3(probe.to, probe.out.head[3]) - 1000 * HeadLen) <= 10

\* the calls that produce what the renderer shows
FrameOps == {"paintEvent", "getCurrentTacticalData", "getTransform"}

\* the engine state: simulation time, own ship, target, vector list and sonar
\* beam (all in tacticalData) and the coordinate transform
EngineState == <<simulationTime, tacticalData, transform, widgetSize, timer>>

\* C12: a paint or a snapshot read leaves the simulation time, the tactical data
\* (own ship, target, vector list, sonar beam) and the transform as they were,
\* wherever it falls among ticks and updates; a snapshot read returns the
\* current value.
C12_FrameProductionKeepsEngineState ==
    [][/\ lastCall'.op \in FrameOps => EngineState' = EngineState
       /\ lastCall'.op = "getCurrentTacticalData" => lastCall'.result = tacticalData
       /\ lastCall'.op = "getTransform" => lastCall'.result = transform]_vars

\* a snapshot read after a resize, a tick and a paint returns the ticked data
C12_Witness ==
    /\ lastCall.op = "getCurrentTacticalData"
    /\ frame.painted
    /\ simulationTime > 0
    /\ lastCall.result = tacticalData
    /\ tacticalData # ConstructedTacticalData

\* C13: the timer runs from construction with a 2000 ms interval; while it is
\* stopped no tick occurs and the simulation time stays as it is, and only
\* startSimulation makes it run again, which is all a tick waits for;
\* setSimulationInterval sets the interval and leaves the running flag, the
\* simulation time and everything else as they were.
C13_TimerGatesTicks ==
    /\ timer = [active |-> TRUE, interval |-> 2000]
    /\ [][/\ ~timer.active =>
               /\ lastCall'.op # "updateSimulation"
               /\ simulationTime' = simulationTime
               /\ timer'.active => lastCall'.op = "startSimulation"
          /\ lastCall'.op = "stopSimulation" => ~timer'.active
          /\ lastCall'.op = "startSimulation" =>
               /\ timer'.active
               /\ simulationTime' = simulationTime
               /\ timer'.interval = timer.interval
          /\ lastCall'.op = "setSimulationInterval" =>
               /\ timer' = [active |-> timer.active, interval |-> lastCall'.args[1]]
               /\ simulationTime' = simulationTime
               /\ tacticalData' = tacticalData
               /\ transform' = transform
               /\ frame' = frame]_vars

\* the interval is set on a stopped timer that has ticked before
C13_Witness ==
    /\ lastCall.op = "setSimulationInterval"
    /\ ~timer.active
    /\ timer.interval # DefaultIntervalMs
    /\ simulationTime > 0

=============================================================================
